---------------------------- MODULE Spec2Model ----------------------------
(***************************************************************************)
(* Model of PDFDownloader (download_pdf.py): the concurrent fetch of a     *)
(* batch of URLs, followed by the sequential open / repair / highlight /   *)
(* save pass over the downloaded files.                                    *)
(*                                                                         *)
(* A file name is a sequence of tokens, so that "highlighted_" + name is   *)
(* a real concatenation: <<"highlighted_", "a">> is the name               *)
(* "highlighted_a", whether it was built by prefixing "a" or is the last   *)
(* segment of a URL.  A URL is a sequence of segments, the last one being  *)
(* the file name.  A path is a directory and a name.                       *)
(***************************************************************************)
EXTENDS Integers, Sequences, FiniteSets, TLC

\* ------------------------------------------------------------------ bounds
MaxUrls == 2
MaxPages == 2
MaxFaults == 2
MaxCalls == 2
MaxTotal == 3
MaxPerPage == 2
MaxFetches == 2

\* ------------------------------------------------------------- environment
\* The remote documents.  Every URL serves one stable payload.
URLS ==
  { << <<"h">>, <<"a">> >>,
    << <<"g">>, <<"a">> >>,
    << <<"h">>, <<"highlighted_", "a">> >>,
    << <<"h">>, <<"b">> >>,
    << <<"h">>, <<"c">> >> }

\* What each URL serves: the name of a payload of the catalogue below.
Served(url) ==
  CASE url = << <<"h">>, <<"a">> >> -> "valid"
    [] url = << <<"g">>, <<"a">> >> -> "xref"
    [] url = << <<"h">>, <<"highlighted_", "a">> >> -> "stub"
    [] url = << <<"h">>, <<"b">> >> -> "html"
    [] OTHER -> "garbage"

\* The payload catalogue.  magic: the first four bytes.  ok: whether
\* fitz.open and doc[0] succeed.  repair: what pikepdf.open + save produce
\* ("raises", or the name of the rewritten payload).  pages: len(doc).
\* term: the only search term with occurrences in the document ("" if none).
\* hits: the number of regions page.search_for finds for it on each page.
Catalogue(base) ==
  CASE base = "valid"      -> [magic |-> "%PDF", ok |-> TRUE,  repair |-> "valid",      pages |-> MaxPages, term |-> "budget", hits |-> 1]
    [] base = "xref"       -> [magic |-> "%PDF", ok |-> FALSE, repair |-> "xref_fixed", pages |-> 0,        term |-> "", hits |-> 0]
    [] base = "xref_fixed" -> [magic |-> "%PDF", ok |-> TRUE,  repair |-> "xref_fixed", pages |-> 1,        term |-> "budget", hits |-> 2]
    [] base = "garbage"    -> [magic |-> "%PDF", ok |-> FALSE, repair |-> "raises",     pages |-> 0,        term |-> "", hits |-> 0]
    [] base = "stub"       -> [magic |-> "%PDF", ok |-> FALSE, repair |-> "stub_fixed", pages |-> 0,        term |-> "", hits |-> 0]
    [] base = "stub_fixed" -> [magic |-> "%PDF", ok |-> FALSE, repair |-> "stub_fixed", pages |-> 0,        term |-> "", hits |-> 0]
    [] base = "html"       -> [magic |-> "<htm", ok |-> FALSE, repair |-> "raises",     pages |-> 0,        term |-> "", hits |-> 0]
    [] OTHER               -> [magic |-> "",     ok |-> FALSE, repair |-> "raises",     pages |-> 0,        term |-> "", hits |-> 0]

\* The bytes of a file: a payload and the annotations saved into it.
Bytes(base) == [base |-> base, annots |-> {}]
EmptyFile == Bytes("empty")

\* The values download_pdfs may get as highlight_words.
WordInputs ==
  { [t |-> "none", v |-> <<>>],
    [t |-> "str",  v |-> <<>>],
    [t |-> "str",  v |-> <<"budget">>],
    [t |-> "list", v |-> <<>>],
    [t |-> "list", v |-> <<"zzz">>],
    [t |-> "list", v |-> <<"zzz", "budget">>] }

RECURSIVE SeqsUpTo(_, _)
SeqsUpTo(S, n) ==
  IF n = 0 THEN {<<>>}
  ELSE LET shorter == SeqsUpTo(S, n - 1)
       IN  shorter \cup {Append(s, x) : s \in {t \in shorter : Len(t) = n - 1}, x \in S}

\* ------------------------------------------------------------------- state
VARIABLES
  urls,             \* download_pdfs argument
  highlight_words,  \* download_pdfs argument (rebound at line 98)
  pc,               \* position of download_pdfs
  tasks,            \* the _download_pdf coroutines, one per URL
  fs,               \* the file system: path -> bytes, for the files that exist
  downloaded_files, \* result of _download_all
  idx,              \* position of the loop of line 101 in downloaded_files
  hw,               \* the frame of the running _highlight_words call
  highlighted_files,\* the list built at lines 100-103
  result,           \* what download_pdfs returned
  origin,           \* history: for each downloaded file, the index of its URL
  hist,             \* history: per URL index, what its pipeline did
  ntemp,            \* number of temporary files created so far
  faults,           \* number of environment failures injected so far
  calls,            \* history: the calls of download_pdfs that have returned
  parldocs,         \* the ParliamentaryDocuments instance: start_record, params
  sru,              \* the SRU endpoint: the number of records the query matches
  fr                \* the frame of the fetch_records call of the instance

vars == <<urls, highlight_words, pc, tasks, fs, downloaded_files, idx, hw,
          highlighted_files, result, origin, hist, ntemp, faults, calls,
          parldocs, sru, fr>>

\* ------------------------------------------------- ParliamentaryDocuments
\* The downloader used on its own: no search client has been constructed.
NoClient == <<>>

\* __init__: the instance starts at record 1, and so does its request.
Construct(max_per_page) ==
  [max_per_page |-> max_per_page,
   start_record |-> 1,
   params |-> [maximumRecords |-> max_per_page, startRecord |-> 1]]

\* No response at hand.
NoRoot == [kind |-> "none"]

\* The frame of fetch_records before its first call: `call` counts the calls
\* of the instance, `requests` those of requests.get within the call,
\* `reported` is the largest numberOfRecords read within the call,
\* `failure` the kind of the response that ended the loop early, if one did,
\* `served` the record elements of the pages answered so far, and `faithful`
\* tells whether every answer so far was the page that was asked for.
NotCalled ==
  [pc |-> "idle", records |-> <<>>, pdf_urls |-> <<>>, root |-> NoRoot,
   recs |-> <<>>, total |-> 0, call |-> 0, requests |-> 0, reported |-> 0,
   faithful |-> TRUE, failure |-> "none", served |-> <<>>]

\* ------------------------------------------------------------- file system
TargetFolder == "downloaded_pdfs"
TempDir == "tmp"

Exists(f, p) == p \in DOMAIN f
\* A write that is lost.
WriteFile_Lost(f, p, c) == f

WriteFile(f, p, c) == [q \in (DOMAIN f) \cup {p} |-> IF q = p THEN c ELSE f[q]]
\* A clean-up that is forgotten.
Unlink_Forgotten(f, p) == f

Unlink(f, p) == [q \in (DOMAIN f) \ {p} |-> f[q]]
NoFiles == [q \in {} |-> EmptyFile]

\* ----------------------------------------------------------------- fetcher
_get_filename_from_url(url) == url[Len(url)]

FilePath(url) == [dir |-> TargetFolder, name |-> _get_filename_from_url(url)]

StatusOK(status) == status = 200

\* The signature test left out.
SignatureOK_Any(content) == TRUE

SignatureOK(content) == Catalogue(content.base).magic = "%PDF"

CanFail == faults < MaxFaults

\* What the fetch phase leaves alone.
seqvars == <<downloaded_files, idx, hw, highlighted_files, result, origin, hist, ntemp>>

NewTask == [pc |-> "get", content |-> EmptyFile, wrote |-> FALSE, result |-> "pending", why |-> ""]

Finish(t, res, why) == [t EXCEPT !.pc = "done", !.result = res, !.why = why]

\* session.get(url), the status test, response.read() and the signature test.
FetchRequest(i) ==
  /\ pc = "fetching"
  /\ tasks[i].pc = "get"
  /\ \/ \E status \in {200, 404} :
          /\ status # 200 => CanFail
          /\ faults' = IF status = 200 THEN faults ELSE faults + 1
          /\ LET content == Bytes(Served(urls[i]))
             IN  tasks' = [tasks EXCEPT ![i] =
                   IF ~StatusOK(status) THEN Finish(@, "none", "status")
                   ELSE IF ~SignatureOK(content)
                        THEN Finish([@ EXCEPT !.content = content], "none", "signature")
                        ELSE [@ EXCEPT !.pc = "open", !.content = content]]
     \/ /\ CanFail
        /\ tasks' = [tasks EXCEPT ![i] = Finish(@, "none", "raised")]
        /\ faults' = faults + 1
  /\ UNCHANGED <<parldocs, sru, fr, calls, urls, highlight_words, pc, fs, seqvars>>

\* aiofiles.open(filepath, 'wb'): creates or truncates the file.
FetchOpen(i) ==
  /\ pc = "fetching"
  /\ tasks[i].pc = "open"
  /\ \/ /\ fs' = WriteFile(fs, FilePath(urls[i]), EmptyFile)
        /\ tasks' = [tasks EXCEPT ![i] = [@ EXCEPT !.pc = "write", !.wrote = TRUE]]
        /\ UNCHANGED faults
     \/ /\ CanFail
        /\ tasks' = [tasks EXCEPT ![i] = Finish(@, "none", "io")]
        /\ faults' = faults + 1
        /\ UNCHANGED fs
  /\ UNCHANGED <<parldocs, sru, fr, calls, urls, highlight_words, pc, seqvars>>

\* f.write(content), the close of the file, and return filepath.
FetchWrite(i) ==
  /\ pc = "fetching"
  /\ tasks[i].pc = "write"
  /\ \/ /\ fs' = WriteFile(fs, FilePath(urls[i]), tasks[i].content)
        /\ tasks' = [tasks EXCEPT ![i] = Finish(@, "path", "")]
        /\ UNCHANGED faults
     \/ /\ CanFail
        /\ tasks' = [tasks EXCEPT ![i] = Finish(@, "none", "io")]
        /\ faults' = faults + 1
        /\ UNCHANGED fs
  /\ UNCHANGED <<parldocs, sru, fr, calls, urls, highlight_words, pc, seqvars>>


\* ---------------------------------------------------------- _download_all
None == [dir |-> "", name |-> <<>>]

\* The results in the reverse of the task order.
Results_Reversed ==
  [i \in DOMAIN tasks |-> IF tasks[Len(tasks) + 1 - i].result = "path"
                          THEN FilePath(urls[Len(tasks) + 1 - i]) ELSE None]

\* What asyncio.gather returns: one entry per task, in task order.
Results == [i \in DOMAIN tasks |-> IF tasks[i].result = "path" THEN FilePath(urls[i]) ELSE None]

\* The failed fetches kept in the list.
NotNone_KeepAll(results) == results

\* Line 73: [path for path in results if path is not None].
NotNone(results) == SelectSeq(results, LAMBDA path : path # None)

\* The URL indexes of the entries line 73 keeps.
KeptIndexes == SelectSeq([i \in DOMAIN tasks |-> i], LAMBDA i : Results[i] # None)

\* ------------------------------------------------------ _highlight_words
NoDoc == [state |-> "unbound", bytes |-> EmptyFile]

IdleFrame ==
  [pc |-> "idle", pdf_path |-> None, doc |-> NoDoc, repaired_path |-> None,
   page_num |-> 0, w |-> 0, k |-> 0, n |-> 0,
   num_highlights |-> 0, has_errors |-> FALSE, added |-> {}, ret |-> FALSE]

\* The history of one document: valid: a validation succeeded; repairs: calls
\* of _repair_pdf; unrep: the repaired file was opened and is still corrupt;
\* annot: the page loop was entered; bytes: what the page loop worked on;
\* nh: num_highlights at the end of the page loop; end: "Done" when
\* _highlight_words returned True, "Failed" when it returned False, with why;
\* tmp: the temporary files created; out: the files saved at line 208.
NoHist == [valid |-> FALSE, repairs |-> 0, unrep |-> FALSE, annot |-> FALSE,
           bytes |-> EmptyFile, nh |-> 0, end |-> "none", why |-> "",
           tmp |-> {}, out |-> {}]

\* What fitz makes of these bytes: whether open and page 0 work.
StructureOK(content) == Catalogue(content.base).ok

\* The error of the validation swallowed.
ValidateOK_AlwaysTrue(content) == TRUE

\* Every document taken for corrupt.
ValidateOK_AlwaysFalse(content) == FALSE

\* fitz.open(path) followed by doc[0]: both succeed on these bytes.
ValidateOK(content) == StructureOK(content)

\* bool(doc): a fitz.Document has __len__, so it is falsy with zero pages.
DocTruthy(doc) == doc.state # "unbound" /\ Catalogue(doc.bytes.base).pages > 0

\* The handlers of lines 151-154 and 165-168: close doc if it is bound and truthy.
\* A failed validation leaves doc bound (and open) when fitz.open succeeded and
\* doc[0] raised, which is the case of the zero-page payloads.
OpensOnly(content) == Catalogue(content.base).repair = "stub_fixed"

FailedOpen(content) ==
  LET doc == IF OpensOnly(content) THEN [state |-> "open", bytes |-> content] ELSE NoDoc
  IN  IF DocTruthy(doc) THEN [doc EXCEPT !.state = "closed"] ELSE doc

\* page.search_for(word): the number of rectangles found on a page.
Hits(content, page_num, word) ==
  IF Catalogue(content.base).term = word THEN Catalogue(content.base).hits ELSE 0

\* The highlighted copy saved over the file itself.
HighlightedPath_InPlace(pdf_path) == pdf_path

\* Line 207: pdf_path.parent / f"highlighted_{pdf_path.name}".
HighlightedPath(pdf_path) == [dir |-> pdf_path.dir, name |-> <<"highlighted_">> \o pdf_path.name]

\* NamedTemporaryFile(delete=False, suffix='.pdf'): a fresh name in the temp dir.
TempPath(n) == [dir |-> TempDir, name |-> <<"tmp", ToString(n), ".pdf">>]

\* The URL index of the document the running call works on.
Cur == origin[idx]

\* The exception left to propagate out of _highlight_words.
Fail_Raise(f) == [f EXCEPT !.pc = "raised"]

\* return False, from the place named by why.
Fail(f) == [f EXCEPT !.pc = "ret", !.ret = FALSE]

Failed(h, why) == [h EXCEPT !.end = "Failed", !.why = why]

\* The repair tried again after a failed re-validation.
Unrepairable_Retry(f, content) == [f EXCEPT !.pc = "repair"]

\* Lines 165-170: the repaired file cannot be opened either.
Unrepairable(f, content) == Fail([f EXCEPT !.doc = FailedOpen(content)])

InCall(at) == pc = "hw" /\ hw.pc = at

\* Lines 147-154: open and validate the downloaded file.
HW_Validate ==
  /\ InCall("validate")
  /\ LET content == fs[hw.pdf_path]
     IN  IF ValidateOK(content)
         THEN /\ hw' = [hw EXCEPT !.pc = "start", !.doc = [state |-> "open", bytes |-> content]]
              /\ hist' = [hist EXCEPT ![Cur].valid = TRUE]
         ELSE /\ hw' = [hw EXCEPT !.pc = "repair", !.doc = FailedOpen(content)]
              /\ UNCHANGED hist
  /\ UNCHANGED <<parldocs, sru, fr, calls, urls, highlight_words, pc, tasks, fs, downloaded_files, idx,
                 highlighted_files, result, origin, ntemp, faults>>

\* What pikepdf.open(pdf_path) + pdf.save(repaired_path) write, or "raises".
RepairOutput(content) == Catalogue(content.base).repair

\* Lines 156-159, with _repair_pdf (lines 119-133) run to its return.
HW_Repair ==
  /\ InCall("repair")
  /\ LET content == fs[hw.pdf_path]
         tmp == TempPath(ntemp + 1)
     IN  \/ \* the temporary file is created; pikepdf raises; the file is unlinked
            /\ RepairOutput(content) = "raises"
            /\ fs' = Unlink(WriteFile(fs, tmp, EmptyFile), tmp)
            /\ ntemp' = ntemp + 1
            /\ hw' = Fail(hw)
            /\ hist' = [hist EXCEPT ![Cur] = Failed([@ EXCEPT !.repairs = @ + 1,
                                                              !.tmp = @ \cup {tmp}], "RepairError")]
            /\ UNCHANGED faults
         \/ \* the rewritten document is saved in the temporary file
            /\ RepairOutput(content) # "raises"
            /\ fs' = WriteFile(fs, tmp, [content EXCEPT !.base = RepairOutput(content)])
            /\ ntemp' = ntemp + 1
            /\ hw' = [hw EXCEPT !.pc = "revalidate", !.repaired_path = tmp]
            /\ hist' = [hist EXCEPT ![Cur].repairs = @ + 1, ![Cur].tmp = @ \cup {tmp}]
            /\ UNCHANGED faults
         \/ \* NamedTemporaryFile raises: nothing was created, None is returned
            /\ CanFail
            /\ faults' = faults + 1
            /\ hw' = Fail(hw)
            /\ hist' = [hist EXCEPT ![Cur] = Failed([@ EXCEPT !.repairs = @ + 1], "RepairError")]
            /\ UNCHANGED <<fs, ntemp>>
  /\ UNCHANGED <<parldocs, sru, fr, calls, urls, highlight_words, pc, tasks, downloaded_files, idx,
                 highlighted_files, result, origin>>

\* Lines 161-173: open and validate the repaired file.
HW_Revalidate ==
  /\ InCall("revalidate")
  /\ LET content == fs[hw.repaired_path]
     IN  IF ValidateOK(content)
         THEN /\ hw' = [hw EXCEPT !.pc = "start", !.pdf_path = hw.repaired_path,
                                  !.doc = [state |-> "open", bytes |-> content]]
              /\ hist' = [hist EXCEPT ![Cur].valid = TRUE, ![Cur].unrep = ~StructureOK(content)]
              /\ UNCHANGED fs
         ELSE /\ hw' = Unrepairable(hw, content)
              /\ hist' = [hist EXCEPT ![Cur] = Failed([@ EXCEPT !.unrep = ~StructureOK(content)],
                                                      "Unrepairable")]
              /\ fs' = Unlink(fs, hw.repaired_path)
  /\ UNCHANGED <<parldocs, sru, fr, calls, urls, highlight_words, pc, tasks, downloaded_files, idx,
                 highlighted_files, result, origin, ntemp, faults>>

\* Lines 175-178: the counters, and len(doc) for the page loop.  Every call
\* that fails in this model is inside one of the inner handlers, so the
\* handler of line 219 is never entered.
HW_Start ==
  /\ InCall("start")
  /\ hw' = [hw EXCEPT !.pc = "page", !.page_num = 0,
                      !.num_highlights = 0, !.has_errors = FALSE]
  /\ hist' = [hist EXCEPT ![Cur].annot = TRUE, ![Cur].bytes = hw.doc.bytes]
  /\ UNCHANGED <<parldocs, sru, fr, calls, urls, highlight_words, pc, tasks, fs, downloaded_files, idx,
                 highlighted_files, result, origin, ntemp, faults>>

NumPages(doc) == Catalogue(doc.bytes.base).pages

\* A failure of one page, one search or one instance stopping the document.
SkipPage_Abort(f) == Fail(f)

\* Lines 199-202: the handler of a page: log, has_errors, continue.
SkipPage(f) ==
  [f EXCEPT !.has_errors = TRUE, !.page_num = @ + 1]

\* Lines 196-198: the handler of a search: log, has_errors, the next word.
SkipWord(f) ==
  [f EXCEPT !.has_errors = TRUE, !.w = @ + 1]

\* Lines 178-180 and 199-202: the next page, or the end of the page loop.
HW_Page ==
  /\ InCall("page")
  /\ IF hw.page_num >= NumPages(hw.doc)
     THEN /\ hw' = [hw EXCEPT !.pc = "save"]
          /\ hist' = [hist EXCEPT ![Cur].nh = hw.num_highlights]
          /\ UNCHANGED faults
     ELSE /\ UNCHANGED hist
          /\ \/ /\ hw' = [hw EXCEPT !.pc = "word", !.w = 1]
                /\ UNCHANGED faults
             \/ /\ CanFail
                /\ faults' = faults + 1
                /\ hw' = SkipPage(hw)
  /\ UNCHANGED <<parldocs, sru, fr, calls, urls, highlight_words, pc, tasks, fs, downloaded_files, idx,
                 highlighted_files, result, origin, ntemp>>

\* Lines 181-184 and 196-198: the next word and its search on the page.
HW_Word ==
  /\ InCall("word")
  /\ IF hw.w > Len(highlight_words.v)
     THEN /\ hw' = [hw EXCEPT !.pc = "page", !.page_num = @ + 1]
          /\ UNCHANGED faults
     ELSE \/ LET n == Hits(hw.doc.bytes, hw.page_num, highlight_words.v[hw.w])
             IN  /\ hw' = IF n = 0 THEN [hw EXCEPT !.w = @ + 1]
                          ELSE [hw EXCEPT !.pc = "inst", !.k = 1, !.n = n]
                 /\ UNCHANGED faults
          \/ /\ CanFail
             /\ faults' = faults + 1
             /\ hw' = SkipWord(hw)
  /\ UNCHANGED <<parldocs, sru, fr, calls, urls, highlight_words, pc, tasks, fs, downloaded_files, idx,
                 highlighted_files, result, origin, hist, ntemp>>

\* The loop of line 187 staying on the same instance.
NextInst_Again(f) == f

\* After the body of the loop of line 187 for instance k.
NextInst(f) == IF f.k >= f.n THEN [f EXCEPT !.pc = "word", !.w = @ + 1] ELSE [f EXCEPT !.k = @ + 1]

\* Lines 193-195: the handler of an instance: log, has_errors, the next instance.
SkipInst(f) ==
  NextInst([f EXCEPT !.has_errors = TRUE])

\* Lines 187-195: one instance: add_highlight_annot, set_colors, update, count.
HW_Inst ==
  /\ InCall("inst")
  /\ LET annot == <<hw.page_num, highlight_words.v[hw.w], hw.k>>
     IN  \/ /\ hw' = NextInst([hw EXCEPT !.added = @ \cup {annot}, !.num_highlights = @ + 1])
            /\ UNCHANGED faults
         \/ \* add_highlight_annot raises
            /\ CanFail
            /\ faults' = faults + 1
            /\ hw' = SkipInst(hw)
         \/ \* set_colors or update raises: the annotation is already in the page
            /\ CanFail
            /\ faults' = faults + 1
            /\ hw' = SkipInst([hw EXCEPT !.added = @ \cup {annot}])
  /\ UNCHANGED <<parldocs, sru, fr, calls, urls, highlight_words, pc, tasks, fs, downloaded_files, idx,
                 highlighted_files, result, origin, hist, ntemp>>

\* Lines 204-215: save the highlighted copy when something was highlighted.
HW_Save ==
  /\ InCall("save")
  /\ IF hw.num_highlights > 0
     THEN LET highlighted_path == HighlightedPath(hw.pdf_path)
          IN  \/ /\ fs' = WriteFile(fs, highlighted_path,
                                    [hw.doc.bytes EXCEPT !.annots = @ \cup hw.added])
                 /\ hw' = [hw EXCEPT !.pc = "close"]
                 /\ hist' = [hist EXCEPT ![Cur].out = @ \cup {highlighted_path}]
                 /\ UNCHANGED faults
              \/ /\ CanFail
                 /\ faults' = faults + 1
                 /\ hw' = Fail(hw)
                 /\ hist' = [hist EXCEPT ![Cur] = Failed(@, "PersistFailure")]
                 /\ UNCHANGED fs
     ELSE /\ hw' = [hw EXCEPT !.pc = "close"]
          /\ UNCHANGED <<fs, hist, faults>>
  /\ UNCHANGED <<parldocs, sru, fr, calls, urls, highlight_words, pc, tasks, downloaded_files, idx,
                 highlighted_files, result, origin, ntemp>>

\* Lines 217-218: doc.close() and return True.
HW_Close ==
  /\ InCall("close")
  /\ hw' = [hw EXCEPT !.pc = "ret", !.ret = TRUE, !.doc.state = "closed"]
  /\ hist' = [hist EXCEPT ![Cur].end = "Done"]
  /\ UNCHANGED <<parldocs, sru, fr, calls, urls, highlight_words, pc, tasks, fs, downloaded_files, idx,
                 highlighted_files, result, origin, ntemp, faults>>

\* ------------------------------------------------------------ download_pdfs
\* The test of the empty list left out.
NoUrls_Ignored(u) == FALSE

\* Line 85: not urls.
NoUrls(u) == u = <<>>

\* Lines 85-93: the empty list returns at once; otherwise one coroutine per
\* URL is created and gathered.
Start ==
  /\ pc = "call"
  /\ IF NoUrls(urls)
     THEN /\ pc' = "returned"
          /\ result' = <<>>
          /\ UNCHANGED <<tasks, hist>>
     ELSE /\ pc' = "fetching"
          /\ tasks' = [i \in 1..Len(urls) |-> NewTask]
          /\ hist' = [i \in 1..Len(urls) |-> NoHist]
          /\ UNCHANGED result
  /\ UNCHANGED <<parldocs, sru, fr, calls, urls, highlight_words, fs, downloaded_files, idx, hw,
                 highlighted_files, origin, ntemp, faults>>

\* A gather that returns with the first task that finishes.
AllDone_FirstCompleted == \E i \in DOMAIN tasks : tasks[i].pc = "done"

\* await asyncio.gather(*tasks): every coroutine has returned.
AllDone == \A i \in DOMAIN tasks : tasks[i].pc = "done"

\* Lines 72-73 and 93: every task has finished; the paths that are not None.
Gather ==
  /\ pc = "fetching"
  /\ AllDone
  /\ downloaded_files' = NotNone(Results)
  /\ origin' = KeptIndexes
  /\ pc' = "words"
  /\ UNCHANGED <<parldocs, sru, fr, calls, urls, highlight_words, tasks, fs, idx, hw, highlighted_files,
                 result, hist, ntemp, faults>>

\* The documents highlighted whatever highlight_words is.
Truthy_Always(words) == TRUE

\* Python truth of highlight_words: None, "" and [] are false.
Truthy(words) == words.t # "none" /\ words.v # <<>>

\* Lines 96-100: whether to highlight at all; a single word becomes a list.
CheckWords ==
  /\ pc = "words"
  /\ IF Truthy(highlight_words) /\ downloaded_files # <<>>
     THEN /\ highlight_words' = [t |-> "list", v |-> highlight_words.v]
          /\ highlighted_files' = <<>>
          /\ idx' = 1
          /\ pc' = "loop"
     ELSE /\ pc' = "return"
          /\ UNCHANGED <<highlight_words, highlighted_files, idx>>
  /\ UNCHANGED <<parldocs, sru, fr, calls, urls, tasks, fs, downloaded_files, hw, result, origin, hist,
                 ntemp, faults>>

\* Lines 101-102: the next downloaded file is handed to _highlight_words.
Loop ==
  /\ pc = "loop"
  /\ IF idx <= Len(downloaded_files)
     THEN /\ hw' = [IdleFrame EXCEPT !.pc = "validate", !.pdf_path = downloaded_files[idx]]
          /\ pc' = "hw"
     ELSE /\ pc' = "return"
          /\ UNCHANGED hw
  /\ UNCHANGED <<parldocs, sru, fr, calls, urls, highlight_words, tasks, fs, downloaded_files, idx,
                 highlighted_files, result, origin, hist, ntemp, faults>>

\* The loop of line 101 staying on the same file.
NextFile_Same(i) == i

\* The loop of line 101 passing over a file.
NextFile_Skip(i) == i + 2

\* Line 101: for pdf_path in downloaded_files moves on to the next file.
NextFile(i) == i + 1

\* Lines 102-105: _highlight_words has returned.
HW_Return ==
  /\ InCall("ret")
  /\ highlighted_files' = IF hw.ret THEN Append(highlighted_files, downloaded_files[idx])
                          ELSE highlighted_files
  /\ idx' = NextFile(idx)
  /\ hw' = IdleFrame
  /\ pc' = "loop"
  /\ UNCHANGED <<parldocs, sru, fr, calls, urls, highlight_words, tasks, fs, downloaded_files, result,
                 origin, hist, ntemp, faults>>

\* Line 108: what download_pdfs returns.
ReturnValue == downloaded_files

Returns ==
  /\ pc = "return"
  /\ result' = ReturnValue
  /\ pc' = "returned"
  /\ UNCHANGED <<parldocs, sru, fr, calls, urls, highlight_words, tasks, fs, downloaded_files, idx, hw,
                 highlighted_files, origin, hist, ntemp, faults>>

Init ==
  /\ urls \in SeqsUpTo(URLS, MaxUrls)
  /\ highlight_words \in WordInputs
  /\ pc = "call"
  /\ tasks = <<>>
  /\ fs = NoFiles
  /\ downloaded_files = <<>>
  /\ idx = 0
  /\ hw = IdleFrame
  /\ highlighted_files = <<>>
  /\ result = <<>>
  /\ origin = <<>>
  /\ hist = <<>>
  /\ ntemp = 0
  /\ faults = 0
  /\ calls = <<>>
  /\ parldocs = NoClient
  /\ sru = 0
  /\ fr = NoClient

Next ==
  \/ Start
  \/ \E i \in DOMAIN tasks : FetchRequest(i)
  \/ \E i \in DOMAIN tasks : FetchOpen(i)
  \/ \E i \in DOMAIN tasks : FetchWrite(i)
  \/ Gather
  \/ CheckWords
  \/ Loop
  \/ HW_Validate
  \/ HW_Repair
  \/ HW_Revalidate
  \/ HW_Start
  \/ HW_Page
  \/ HW_Word
  \/ HW_Inst
  \/ HW_Save
  \/ HW_Close
  \/ HW_Return
  \/ Returns

Spec == Init /\ [][Next]_vars

\* The interpreter and the event loop keep running: a step that can be taken
\* is taken, so every request is answered or fails and every coroutine is
\* resumed.
FairSpec == Spec /\ WF_vars(Next)

\* --------------------------------------------------- download_pdfs again
\* The argument a call was given: line 98 rebinds a single word to a list.
GivenWords(words) ==
  IF Truthy(words) THEN CHOOSE w \in WordInputs : w.v = words.v ELSE words

\* What a returned call leaves to look at.
Returned ==
  [urls |-> urls, highlight_words |-> GivenWords(highlight_words), result |-> result,
   fs |-> fs, hist |-> hist, faults |-> faults]

\* download_pdfs is called again on the same downloader and target folder,
\* with the list of an earlier call or with the empty list, and with the same
\* words.  The files stay; temporary names are never used twice.
Rerun ==
  /\ pc = "returned"
  /\ Len(calls) + 1 < MaxCalls
  /\ calls' = Append(calls, Returned)
  /\ urls' \in {urls, <<>>} \cup {calls[c].urls : c \in DOMAIN calls}
  /\ highlight_words' = GivenWords(highlight_words)
  /\ pc' = "call"
  /\ tasks' = <<>>
  /\ downloaded_files' = <<>>
  /\ idx' = 0
  /\ hw' = IdleFrame
  /\ highlighted_files' = <<>>
  /\ result' = <<>>
  /\ origin' = <<>>
  /\ hist' = <<>>
  /\ UNCHANGED <<fs, ntemp, faults, parldocs, sru, fr>>

\* One URL at most, called repeatedly.
InitTwice == Init /\ Len(urls) <= 1

NextTwice == Next \/ Rerun

SpecTwice == InitTwice /\ [][NextTwice]_vars


\* ------------------------------------------------------------ SRU endpoint
\* An XML element with text: `pad` tells whether white space surrounds the
\* body.  An element that is missing has present = FALSE.
Elem(pad, body) == [present |-> TRUE, pad |-> pad, body |-> body]

NoElem == [present |-> FALSE, pad |-> FALSE, body |-> ""]

\* The k-th record the query matches.  Records differ in how they carry the
\* identifier: padded, with blank text only, without recordData, plain.
Database(k) ==
  CASE k % 4 = 1 -> [recordData |-> TRUE, title |-> Elem(FALSE, "title-" \o ToString(k)),
                     identifier |-> Elem(TRUE, "kst-" \o ToString(k))]
    [] k % 4 = 2 -> [recordData |-> TRUE, title |-> Elem(FALSE, "title-" \o ToString(k)),
                     identifier |-> Elem(TRUE, "")]
    [] k % 4 = 3 -> [recordData |-> FALSE, title |-> NoElem, identifier |-> NoElem]
    [] OTHER -> [recordData |-> TRUE, title |-> Elem(FALSE, "title-" \o ToString(k)),
                 identifier |-> Elem(FALSE, "kst-" \o ToString(k))]

\* The records the query matches, in the order of the result set.
Found == [k \in 1 .. sru |-> Database(k)]

Min(a, b) == IF a <= b THEN a ELSE b

Max(a, b) == IF a >= b THEN a ELSE b

\* At most n consecutive records of the result set, from record a.
Slice(a, n) == [i \in 1 .. Max(0, Min(n, sru - a + 1)) |-> Database(a + i - 1)]

\* The numberOfRecords element of a response: missing, not a number, or a
\* count.
NoNumber == [given |-> FALSE, digits |-> FALSE, value |-> 0]

NotANumber == [given |-> TRUE, digits |-> FALSE, value |-> 0]

Number(k) == [given |-> TRUE, digits |-> TRUE, value |-> k]

NumberFields == {NoNumber, NotANumber} \cup {Number(k) : k \in 0 .. MaxTotal}

\* What requests.get can meet: no connection or a timeout, a status that
\* raise_for_status rejects, a body that is not XML, or an XML document, with
\* or without a diagnostic.  The endpoint need not honour startRecord or
\* maximumRecords, and the count it reports need not be the same every time.
Answers(params) ==
  {[kind |-> k, diagnostic |-> FALSE, recs |-> <<>>, numberOfRecords |-> NoNumber] :
     k \in {"network", "status", "malformed"}}
  \cup
  {[kind |-> "xml", diagnostic |-> d, recs |-> Slice(a, n), numberOfRecords |-> t] :
     d \in BOOLEAN, a \in {1, params.startRecord}, n \in 0 .. MaxPerPage,
     t \in NumberFields}

\* The answer is the page that was asked for: the consecutive records from
\* startRecord, at most maximumRecords of them and at least one while records
\* remain, with the number of records the query matches.
Conforms(resp, params) ==
  /\ resp.kind = "xml"
  /\ ~resp.diagnostic
  /\ resp.numberOfRecords = Number(sru)
  /\ resp.recs \in {Slice(params.startRecord, n) : n \in 0 .. params.maximumRecords}
  /\ params.startRecord <= sru => resp.recs # <<>>

\* --------------------------------------------------- _fetch_and_parse_xml
\* Both handlers return None.
FetchAndParseXml(resp) ==
  IF resp.kind \in {"network", "status"} THEN NoRoot
  ELSE IF resp.kind = "malformed" THEN NoRoot
  ELSE resp

\* ---------------------------------------------------- _has_diagnostic_error
HasDiagnosticError(root) == root.diagnostic

\* ------------------------------------------------------------ _build_record
\* element.text.strip() if element is not None and element.text else ""
Strip(e) == e.body

FieldText(e) == IF e.present /\ (e.pad \/ e.body # "") THEN Strip(e) ELSE ""

PdfUrl(identifier) ==
  IF identifier # ""
  THEN "https://zoek.officielebekendmakingen.nl/" \o identifier \o ".pdf"
  ELSE ""

\* empty_record, returned at line 71, has no "pdf_url" key.
BuildRecord(rec) ==
  IF ~rec.recordData
  THEN [identifier |-> "", title |-> ""]
  ELSE [identifier |-> FieldText(rec.identifier), title |-> FieldText(rec.title),
        pdf_url |-> PdfUrl(FieldText(rec.identifier))]

\* ------------------------------------------------------------ fetch_records
\* record["pdf_url"] at line 138 raises KeyError on a record without the key.
HasPdfUrl(record) == "pdf_url" \in DOMAIN record

\* The records of a page, built, up to the first one line 138 cannot read.
RECURSIVE Readable(_)
Readable(recs) ==
  IF recs = <<>> THEN <<>>
  ELSE IF HasPdfUrl(BuildRecord(Head(recs))) THEN <<Head(recs)>> \o Readable(Tail(recs))
  ELSE <<>>

\* The PDF URLs of the records that have one, in the order of the records.
RECURSIVE PdfUrls(_)
PdfUrls(records) ==
  IF records = <<>> THEN <<>>
  ELSE IF HasPdfUrl(Head(records)) /\ Head(records).pdf_url # ""
       THEN <<Head(records).pdf_url>> \o PdfUrls(Tail(records))
       ELSE PdfUrls(Tail(records))

Built(recs) == [i \in DOMAIN recs |-> BuildRecord(recs[i])]

\* int(...) of line 140, with "0" for a missing element: defined on digits.
IsInt(field) == ~field.given \/ field.digits

IntOf(field) == IF field.given THEN field.value ELSE 0

\* The three breaks of lines 129-134 leave the loop for line 150.
Break_Raise(f, why) == [f EXCEPT !.pc = "raised", !.failure = why, !.root = NoRoot]

Break(f, why) == [f EXCEPT !.pc = "return", !.failure = why, !.root = NoRoot]

\* An exception leaves fetch_records: nothing is returned.
Raise(f, why) ==
  [f EXCEPT !.pc = "raised", !.failure = why, !.root = NoRoot, !.recs = <<>>]

\* Line 145.
NextStart_Stay(start_record, received, max_per_page) == start_record

NextStart(start_record, received, max_per_page) == start_record + received

\* Line 146.
Finished(start_record, total) == start_record > total

\* Lines 125-126: a call on the instance, the first one or a later one:
\* start_record and params are the instance's, the lists are the call's.
FR_Call ==
  /\ fr.pc \in {"idle", "returned", "raised"}
  /\ fr.call < MaxFetches
  /\ fr' = [NotCalled EXCEPT !.pc = "top", !.call = fr.call + 1]
  /\ UNCHANGED <<parldocs, sru>>

\* Lines 128-130: one request with the instance's params.
FR_Fetch ==
  /\ fr.pc = "top"
  /\ \E resp \in Answers(parldocs.params) :
       LET root == FetchAndParseXml(resp)
           f == [fr EXCEPT !.requests = @ + 1,
                           !.faithful = @ /\ Conforms(resp, parldocs.params)]
       IN  fr' = IF root = NoRoot
                 THEN Break(f, resp.kind)
                 ELSE [f EXCEPT !.pc = "root", !.root = root]
  /\ UNCHANGED <<parldocs, sru>>

\* Lines 131-135: a diagnostic or an empty page ends the loop.
FR_Check ==
  /\ fr.pc = "root"
  /\ fr' = IF HasDiagnosticError(fr.root) THEN Break(fr, "diagnostic")
           ELSE IF fr.root.recs = <<>> THEN Break(fr, "none")
           ELSE [fr EXCEPT !.pc = "recs", !.recs = fr.root.recs,
                           !.served = @ \o fr.root.recs]
  /\ UNCHANGED <<parldocs, sru>>

\* Lines 135-139: the records of the page are built and appended in order.
FR_Build ==
  /\ fr.pc = "recs"
  /\ LET ok == Readable(fr.recs)
         f == [fr EXCEPT !.records = @ \o Built(ok),
                         !.pdf_urls = @ \o PdfUrls(Built(ok))]
     IN  fr' = IF Len(ok) < Len(fr.recs)
               THEN Raise([f EXCEPT !.records = Append(@, BuildRecord(fr.recs[Len(ok) + 1]))],
                          "KeyError")
               ELSE [f EXCEPT !.pc = "total"]
  /\ UNCHANGED <<parldocs, sru>>

\* Lines 140-149: the next start record; the request changes only when the
\* loop goes on.
FR_Advance ==
  /\ fr.pc = "total"
  /\ IF ~IsInt(fr.root.numberOfRecords)
     THEN /\ fr' = Raise(fr, "ValueError")
          /\ UNCHANGED parldocs
     ELSE LET total == IntOf(fr.root.numberOfRecords)
              start == NextStart(parldocs.start_record, Len(fr.recs), parldocs.max_per_page)
              f == [fr EXCEPT !.total = total, !.reported = Max(@, total),
                              !.root = NoRoot, !.recs = <<>>]
          IN  IF Finished(start, total)
              THEN /\ parldocs' = [parldocs EXCEPT !.start_record = start]
                   /\ fr' = [f EXCEPT !.pc = "return"]
              ELSE /\ parldocs' = [parldocs EXCEPT !.start_record = start,
                                                   !.params.startRecord = start]
                   /\ fr' = [f EXCEPT !.pc = "top"]
  /\ UNCHANGED sru

\* Line 150.
FR_Return ==
  /\ fr.pc = "return"
  /\ fr' = [fr EXCEPT !.pc = "returned"]
  /\ UNCHANGED <<parldocs, sru>>

\* The steps of a call.
FR_Step == FR_Fetch \/ FR_Check \/ FR_Build \/ FR_Advance \/ FR_Return

\* The downloader is not in use.
Downloader ==
  <<urls, highlight_words, pc, tasks, fs, downloaded_files, idx, hw,
    highlighted_files, result, origin, hist, ntemp, faults, calls>>

\* A new instance, with some page size, and a query that matches some number
\* of records.
FetchInit ==
  /\ urls = <<>>
  /\ highlight_words = [t |-> "none", v |-> <<>>]
  /\ pc = "call"
  /\ tasks = <<>>
  /\ fs = NoFiles
  /\ downloaded_files = <<>>
  /\ idx = 0
  /\ hw = IdleFrame
  /\ highlighted_files = <<>>
  /\ result = <<>>
  /\ origin = <<>>
  /\ hist = <<>>
  /\ ntemp = 0
  /\ faults = 0
  /\ calls = <<>>
  /\ parldocs \in {Construct(m) : m \in 1 .. MaxPerPage}
  /\ sru \in 0 .. MaxTotal
  /\ fr = NotCalled

FetchNext ==
  \/ FR_Call /\ UNCHANGED Downloader
  \/ FR_Fetch /\ UNCHANGED Downloader
  \/ FR_Check /\ UNCHANGED Downloader
  \/ FR_Build /\ UNCHANGED Downloader
  \/ FR_Advance /\ UNCHANGED Downloader
  \/ FR_Return /\ UNCHANGED Downloader

FetchSpec == FetchInit /\ [][FetchNext]_vars

\* Every request is answered or fails within its timeout, and the interpreter
\* keeps running; the caller need not call again.
FairFetchSpec == FetchSpec /\ WF_vars(FR_Step /\ UNCHANGED Downloader)


\* ------------------------------------------------------------------ claims
\* The path the fetch of URL i is to write, and the path of its highlighted copy.
PlainPath(i) == [dir |-> "downloaded_pdfs", name |-> urls[i][Len(urls[i])]]
PrefixedPath(i) == [dir |-> "downloaded_pdfs", name |-> <<"highlighted_">> \o urls[i][Len(urls[i])]]

Fetched == {i \in DOMAIN tasks : tasks[i].result = "path"}
AfterFetch == pc \notin {"call", "fetching"}
InPageLoop == pc = "hw" /\ hw.pc \in {"page", "word", "inst", "save", "close"}

\* The occurrences of the words in a document: (page, word, region) triples.
Occurrences(content) ==
  {o \in (0 .. Catalogue(content.base).pages - 1) \X (DOMAIN highlight_words.v) \X (1 .. Catalogue(content.base).hits) :
     o[3] <= Hits(content, o[1], highlight_words.v[o[2]])}

TotalHits(content) == Cardinality(Occurrences(content))

\* C1: the page loop of _highlight_words runs only on a document that has
\* produced a Valid outcome: the open handle is on bytes that open and have a
\* first page, and they are the bytes of the downloaded file (never repaired)
\* or of the repaired file (after exactly one repair).
C1_AnnotateOnlyAfterValid ==
  /\ \A d \in DOMAIN hist : hist[d].annot => hist[d].valid /\ StructureOK(hist[d].bytes)
  /\ InPageLoop =>
       /\ hw.doc.state = "open"
       /\ StructureOK(hw.doc.bytes)
       /\ hist[Cur].valid
       /\ \/ hw.pdf_path = downloaded_files[idx] /\ hist[Cur].repairs = 0
          \/ hw.pdf_path = hw.repaired_path /\ hw.pdf_path.dir = TempDir /\ hist[Cur].repairs = 1

\* C1 witness: an instance is being highlighted in a repaired document.
C1_Witness == pc = "hw" /\ hw.pc = "inst" /\ hw.repaired_path # None

\* C2 (as claimed): a document whose _highlight_words call failed is not among
\* the paths download_pdfs returns.
C2_FailedNeverReported ==
  pc = "returned" => \A j \in DOMAIN result : hist[origin[j]].end # "Failed"

\* C3 (as claimed): download_pdfs returns as many outcomes as it got URLs.
C3_OneOutcomePerUrl == pc = "returned" => Len(result) = Len(urls)

\* C3 (amended): download_pdfs returns one path per URL whose fetch succeeded
\* and nothing for the others, so never more entries than URLs.
C3_OneEntryPerFetched ==
  /\ AfterFetch /\ urls # <<>> =>
       /\ Len(downloaded_files) = Cardinality(Fetched)
       /\ \A j \in DOMAIN downloaded_files : downloaded_files[j] # None
  /\ pc = "returned" => Len(result) = Cardinality(Fetched) /\ Len(result) <= Len(urls)

\* C3 witness: a batch returned with some, but not all, of its URLs.
C3_Witness == pc = "returned" /\ 0 < Len(result) /\ Len(result) < Len(urls)

\* C4: a fetch that ends because the request raised, the status was not 200
\* or the payload does not start with %PDF returns None and its task has
\* written nothing; a payload without the signature never gets past the test;
\* a failed fetch is not among the downloaded files; and every file of the
\* target folder was written by a fetch that opened it or by a save.
C4_FailedFetchWritesNothing ==
  /\ \A i \in DOMAIN tasks :
       /\ tasks[i].pc = "done" /\ tasks[i].why \in {"raised", "status", "signature"}
            => tasks[i].result = "none" /\ ~tasks[i].wrote
       /\ tasks[i].content # EmptyFile /\ Catalogue(tasks[i].content.base).magic # "%PDF"
            => tasks[i].pc = "done" /\ tasks[i].result = "none" /\ ~tasks[i].wrote
       /\ AfterFetch /\ tasks[i].result = "none" => \A j \in DOMAIN origin : origin[j] # i
  /\ \A p \in DOMAIN fs :
       p.dir = "downloaded_pdfs" =>
         \/ \E i \in DOMAIN tasks : tasks[i].wrote /\ PlainPath(i) = p
         \/ \E d \in DOMAIN hist : p \in hist[d].out

\* C4 witness: the batch has returned, one payload was rejected for its
\* signature, and there is no file under its name.
C4_Witness ==
  /\ pc = "returned"
  /\ \E i \in DOMAIN tasks : tasks[i].why = "signature" /\ PlainPath(i) \notin DOMAIN fs

\* C5 (as claimed): a file is under a document's output name only once the
\* document's whole pipeline has succeeded.
C5_NoFileBeforeDone ==
  \A i \in DOMAIN tasks : PlainPath(i) \in DOMAIN fs => hist[i].end = "Done"

\* C5 (amended): the fetch itself writes the payload under the document's
\* plain name; the file is there as soon as the fetch has succeeded and stays
\* whatever the later stages do, also when they fail; only the highlighted
\* copy is written after validation and annotation.
C5_FetchPersists ==
  \A i \in DOMAIN tasks :
    /\ tasks[i].result = "path" => tasks[i].wrote /\ PlainPath(i) \in DOMAIN fs
    /\ hist[i].end # "none" => tasks[i].result = "path" /\ PlainPath(i) \in DOMAIN fs
    /\ hist[i].out # {} => hist[i].valid /\ hist[i].annot

\* C5 witness: a document has failed after its fetch and its file is still there.
C5_Witness ==
  /\ pc = "returned"
  /\ \E i \in DOMAIN tasks : hist[i].end = "Failed" /\ PlainPath(i) \in DOMAIN fs

\* C6 (as claimed): once a document is Done or Failed, none of the temporary
\* files _repair_pdf created for it exists.
C6_NoTempLeak ==
  \A d \in DOMAIN hist : hist[d].end # "none" => \A p \in hist[d].tmp : p \notin DOMAIN fs

C8_RepairAtMostOnce ==
  /\ \A d \in DOMAIN hist : hist[d].repairs <= 1 /\ Cardinality(hist[d].tmp) <= hist[d].repairs
  /\ ntemp <= Len(urls)

\* C8 witness: the batch has returned and a document was repaired once, its
\* re-validation having failed.
C8_Witness ==
  pc = "returned" /\ \E d \in DOMAIN hist : hist[d].repairs = 1 /\ hist[d].unrep

\* C9 (as claimed): every highlighted copy is saved as "highlighted_" + the
\* last segment of the URL, in the target folder.
C9_OutputAtDeterministicPath ==
  \A d \in DOMAIN hist : \A p \in hist[d].out : p = PrefixedPath(d)

\* C10 (as claimed): a fetched document whose file is valid when it is opened
\* ends Done, with the file under the plain name only when there are no terms
\* or nothing was highlighted, and the file under the prefixed name otherwise.
C10_OneDoneOutput ==
  pc = "returned" =>
    \A i \in Fetched :
      /\ ~Truthy(highlight_words) => PlainPath(i) \in DOMAIN fs /\ hist[i].out = {}
      /\ Truthy(highlight_words) /\ hist[i].valid /\ hist[i].repairs = 0 =>
           /\ hist[i].end = "Done"
           /\ IF hist[i].nh = 0
              THEN PlainPath(i) \in DOMAIN fs /\ hist[i].out = {}
              ELSE hist[i].out = {PrefixedPath(i)}

\* C10 (amended): every fetched URL has exactly one entry in the result, its
\* plain path, and the file is there.  Without terms the document is not
\* opened.  With terms, a document whose downloaded file is valid when opened
\* ends once: Failed only by a failed save, with no highlighted copy; Done otherwise, with the highlighted copy under the
\* prefixed name exactly when at least one highlight was added.  No match
\* means no highlight, and with no failure every match is a highlight.
C10_DoneOutputs ==
  pc = "returned" =>
    \A i \in Fetched :
      /\ Cardinality({j \in DOMAIN origin : origin[j] = i}) = 1
      /\ \A j \in DOMAIN origin : origin[j] = i => result[j] = PlainPath(i)
      /\ PlainPath(i) \in DOMAIN fs
      /\ ~Truthy(highlight_words) => hist[i].end = "none" /\ hist[i].out = {}
      /\ Truthy(highlight_words) /\ hist[i].valid /\ hist[i].repairs = 0 =>
           /\ hist[i].end \in {"Done", "Failed"}
           /\ hist[i].end = "Failed" =>
                hist[i].why = "PersistFailure" /\ hist[i].out = {}
           /\ hist[i].end = "Done" =>
                hist[i].out = IF hist[i].nh > 0 THEN {PrefixedPath(i)} ELSE {}
           /\ hist[i].out \subseteq DOMAIN fs
           /\ TotalHits(hist[i].bytes) = 0 => hist[i].nh = 0
           /\ faults = 0 => hist[i].nh = TotalHits(hist[i].bytes)

\* C10 witness: a valid document is Done with highlights and its prefixed copy exists.
C10_Witness ==
  /\ pc = "returned"
  /\ \E i \in Fetched :
       /\ hist[i].end = "Done" /\ hist[i].repairs = 0 /\ hist[i].nh > 0
       /\ PrefixedPath(i) \in DOMAIN fs

\* C11 (as claimed, for the documents whose page loop ran): when
\* _highlight_words returns, after normal completion or after a failed save,
\* the handle it opened has been closed.
C11_HandleClosedOnReturn ==
  pc = "hw" /\ hw.pc = "ret" /\ hist[Cur].annot => hw.doc.state = "closed"

\* The position of the page loop: page, word and instance.
InItemLoop == pc = "hw" /\ hw.pc \in {"page", "word", "inst"}

\* A step of the page loop in which a page access, a search or the
\* highlighting of an instance fails: only that item is skipped, the loop
\* goes on with the next one and the counter keeps what was counted.
FailedItemStep ==
  InItemLoop /\ faults' = faults + 1 =>
    /\ pc' = "hw"
    /\ hw'.has_errors
    /\ hw'.doc = hw.doc
    /\ hw'.num_highlights = hw.num_highlights
    /\ hw.added \subseteq hw'.added
    /\ CASE hw.pc = "page" -> hw'.pc = "page" /\ hw'.page_num = hw.page_num + 1
         [] hw.pc = "word" -> hw'.pc = "word" /\ hw'.page_num = hw.page_num /\ hw'.w = hw.w + 1
         [] OTHER -> /\ hw'.page_num = hw.page_num
                     /\ IF hw.k < Hits(hw.doc.bytes, hw.page_num, highlight_words.v[hw.w])
                        THEN hw'.pc = "inst" /\ hw'.w = hw.w /\ hw'.k = hw.k + 1
                        ELSE hw'.pc = "word" /\ hw'.w = hw.w + 1

\* The page loop is left only behind the last page, and a page only behind
\* the last word.
LoopRunsToTheEnd ==
  /\ pc = "hw" /\ hw.pc \in {"save", "close"} => hw.page_num = Catalogue(hw.doc.bytes.base).pages
  /\ pc = "hw" /\ hw.pc \in {"page", "word", "inst"} =>
       /\ hw.page_num <= Catalogue(hw.doc.bytes.base).pages
       /\ hw.pc # "page" => hw.page_num < Catalogue(hw.doc.bytes.base).pages /\ hw.w >= 1
       /\ hw.pc = "inst" => hw.w <= Len(highlight_words.v) /\ hw.k >= 1

\* A call that went through the page loop and whose save did not fail returns
\* True, the document is Done, and the saved copy holds all that was added.
DoneDespiteErrors ==
  pc = "hw" /\ hw.pc = "ret" /\ hist[Cur].annot /\ hist[Cur].why # "PersistFailure" =>
    /\ hw.ret /\ hist[Cur].end = "Done"
    /\ hw.num_highlights > 0 => hist[Cur].out # {}
    /\ \A p \in hist[Cur].out : p \in DOMAIN fs /\ hw.added \subseteq fs[p].annots

\* C12: whatever fails in the page loop (a page access, a search, the
\* highlighting of one instance), the loop goes on with the next item and runs
\* to the last page and word, and the document ends Done with the highlights
\* that succeeded, unless the save fails.
C12_PartialFailure ==
  /\ [][FailedItemStep]_vars
  /\ [](LoopRunsToTheEnd /\ DoneDespiteErrors)

\* C12 witness: a document in which an item failed and another was
\* highlighted is being closed after its copy was saved.
C12_Witness ==
  pc = "hw" /\ hw.pc = "close" /\ hw.has_errors /\ hw.num_highlights > 0 /\ hist[Cur].out # {}

\* C13 (as claimed): throughout the page loop and at its end, num_highlights
\* is the number of (page, word, region) triples whose annotation has been
\* added to the document.
C13_CountEqualsAdded ==
  pc = "hw" /\ hw.pc \in {"page", "word", "inst", "save", "close"} =>
    hw.num_highlights = Cardinality(hw.added)

\* The paths the fetch task and the pipeline of URL i have written so far.
WrittenBy(i) ==
  (IF tasks[i].wrote THEN {FilePath(urls[i])} ELSE {}) \cup hist[i].tmp \cup hist[i].out

\* C14 (as claimed): no path is written for two different entries of the URL
\* list, whatever the URLs are and however the fetch tasks interleave.
C14_ExclusiveFiles ==
  \A i, j \in DOMAIN tasks : i # j => WrittenBy(i) \cap WrittenBy(j) = {}

\* A step of the fetch phase is the step of one task: it leaves the other
\* tasks as they are; and a task that has its outcome keeps it.
OwnStepOnly ==
  /\ \A i, j \in DOMAIN tasks :
       i # j /\ DOMAIN tasks' = DOMAIN tasks /\ tasks'[i] # tasks[i] => tasks'[j] = tasks[j]
  /\ \A i \in DOMAIN tasks :
       tasks[i].pc = "done" /\ DOMAIN tasks' = DOMAIN tasks => tasks'[i] = tasks[i]

\* During the fetch phase a task without outcome can always take its next
\* step, whatever the other tasks have done or not done.
NeverBlocked ==
  pc = "fetching" =>
    \A i \in DOMAIN tasks :
      tasks[i].pc # "done" => ENABLED (FetchRequest(i) \/ FetchOpen(i) \/ FetchWrite(i))

\* One task per URL; each finished task has its own outcome, decided by its
\* own request and its own writes; and nothing is opened, repaired or
\* highlighted while a task is still running.
FetchBarrier ==
  /\ pc # "call" /\ urls # <<>> => DOMAIN tasks = DOMAIN urls
  /\ \A i \in DOMAIN tasks :
       /\ tasks[i].pc = "done" => tasks[i].result \in {"path", "none"}
       /\ tasks[i].pc # "done" => tasks[i].result = "pending"
       /\ tasks[i].result = "path" => tasks[i].wrote /\ tasks[i].content = Bytes(Served(urls[i]))
  /\ (\E i \in DOMAIN tasks : tasks[i].pc # "done") =>
       /\ pc = "fetching" /\ hw.pc = "idle" /\ downloaded_files = <<>>
       /\ \A d \in DOMAIN hist : ~hist[d].valid /\ hist[d].repairs = 0 /\ ~hist[d].annot
                                /\ hist[d].end = "none"

\* C15: one fetch task per URL; every task reaches its own outcome, is never
\* stopped or changed by another task, and no document is opened, repaired or
\* highlighted before every task of the batch has finished.
C15_FetchBarrier == [](FetchBarrier /\ NeverBlocked) /\ [][OwnStepOnly]_vars

\* C15 witness: the request of one task raised, another task has written its
\* file, and the first document is about to be opened.
C15_Witness ==
  /\ pc = "hw" /\ hw.pc = "validate"
  /\ \E i, j \in DOMAIN tasks : tasks[i].why = "raised" /\ tasks[j].result = "path"

FilesAtCall == IF calls = <<>> THEN [p \in {} |-> EmptyFile] ELSE calls[Len(calls)].fs

\* C17: a call of download_pdfs with the empty list goes from the call to
\* the return in one step: no task is created, the fetch phase is never
\* entered, no document is opened, no failure can happen, the result is the
\* empty list and every file is as it was when the call was made.
C17_EmptyListNoOp ==
  urls = <<>> =>
    /\ pc \in {"call", "returned"}
    /\ tasks = <<>> /\ downloaded_files = <<>> /\ hist = <<>> /\ hw.pc = "idle"
    /\ result = <<>>
    /\ fs = FilesAtCall
    /\ calls # <<>> => faults = calls[Len(calls)].faults

\* C17 witness: a call with the empty list has returned in a folder that
\* holds the files of an earlier call.
C17_Witness ==
  pc = "returned" /\ urls = <<>> /\ calls # <<>> /\ DOMAIN fs # {}

\* Words were given: highlight_words is neither None nor "" nor [].
WordsGiven == highlight_words.t # "none" /\ highlight_words.v # <<>>

\* C18 (as claimed): when download_pdfs has returned, every document it
\* reports has been through the validate/repair/annotate pass, with or
\* without words.
C18_ReportedAfterPipeline ==
  pc = "returned" => \A j \in DOMAIN result : hist[origin[j]].end \in {"Done", "Failed"}

\* C18 (amended): every reported path is the file of a fetch that succeeded
\* on a payload with the %PDF signature.  With words, every fetched document
\* has been through the pass, to Done or Failed, when download_pdfs returns,
\* and a Done document was validated.  Without words no document is ever
\* opened, validated, repaired or highlighted.
C18_PipelineOnlyWithWords ==
  /\ pc = "returned" =>
       \A j \in DOMAIN result :
         /\ tasks[origin[j]].result = "path"
         /\ Catalogue(Served(urls[origin[j]])).magic = "%PDF"
         /\ WordsGiven =>
              /\ hist[origin[j]].end \in {"Done", "Failed"}
              /\ hist[origin[j]].end = "Done" => hist[origin[j]].valid
  /\ ~WordsGiven =>
       /\ hw.pc = "idle"
       /\ \A d \in DOMAIN hist :
            ~hist[d].valid /\ hist[d].repairs = 0 /\ ~hist[d].annot /\ hist[d].end = "none"

\* C18 witness: called without words, download_pdfs has returned the path of
\* a file that fitz cannot open.
C18_Witness ==
  /\ pc = "returned" /\ ~WordsGiven
  /\ \E j \in DOMAIN result : ~Catalogue(fs[result[j]].base).ok

\* The state of the document of URL d in the state machine of the pipeline.
Stage(d) ==
  IF hist[d].end # "none" THEN hist[d].end
  ELSE IF pc = "hw" /\ origin[idx] = d
       THEN CASE hw.pc = "validate"   -> "Validating"
              [] hw.pc = "repair"     -> "Repairing"
              [] hw.pc = "revalidate" -> "Revalidating"
              [] OTHER                -> "Annotating"
       ELSE IF pc \notin {"call", "fetching"} /\ tasks[d].result = "path" THEN "Fetched"
            ELSE "Fetching"

\* The moves of the state machine.
StageEdges ==
  { <<"Fetching", "Fetched">>, <<"Fetched", "Validating">>,
    <<"Validating", "Annotating">>, <<"Validating", "Repairing">>,
    <<"Repairing", "Revalidating">>, <<"Repairing", "Failed">>,
    <<"Revalidating", "Annotating">>, <<"Revalidating", "Failed">>,
    <<"Annotating", "Done">>, <<"Annotating", "Failed">> }

\* Every step leaves a document in its state or moves it along one edge, and
\* nothing is recorded for a document that is Done or Failed.
StageMoves ==
  \A d \in DOMAIN hist :
    DOMAIN hist' = DOMAIN hist =>
      /\ Stage(d)' = Stage(d) \/ <<Stage(d), Stage(d)'>> \in StageEdges
      /\ hist[d].end # "none" => hist'[d] = hist[d]

\* A running call of _highlight_words works on a document that is neither
\* Done nor Failed, and no document has two entries in the list of files.
RunningIsLive ==
  /\ pc = "hw" /\ hw.pc # "ret" => hist[origin[idx]].end = "none"
  /\ pc = "hw" /\ hw.pc = "ret" => hist[origin[idx]].end \in {"Done", "Failed"}
  /\ \A j, k \in DOMAIN origin : origin[j] = origin[k] => j = k

\* C19: every document of a batch moves only along Fetched -> Validating ->
\* (Annotating | Repairing -> re-Validating -> Annotating) -> Done or Failed.
\* The edges have no cycle, so no state is entered twice, and nothing
\* happens to a document after Done or Failed.
C19_StateMachine == []RunningIsLive /\ [][StageMoves]_vars

\* C19 witness: a document is Done after Validating, Repairing,
\* re-Validating and Annotating.
C19_Witness ==
  pc = "hw" /\ hw.pc = "ret" /\ hist[origin[idx]].end = "Done" /\ hist[origin[idx]].repairs = 1

\* C20 (as claimed): a second call of download_pdfs with the same URL and the
\* same words, no failure of the environment in either call, returns what the
\* first call returned and saves the same highlighted copies: the same
\* paths, the same contents, the same number of highlights.
C20_Idempotent ==
  pc = "returned" /\ calls # <<>> /\ urls # <<>> /\ urls = calls[Len(calls)].urls /\ faults = 0 =>
    LET first == calls[Len(calls)]
    IN  /\ result = first.result
        /\ \A d \in DOMAIN hist :
             /\ hist[d].end = first.hist[d].end
             /\ hist[d].nh = first.hist[d].nh
             /\ hist[d].out = first.hist[d].out
             /\ \A p \in hist[d].out : fs[p] = first.fs[p]

\* No step after the fetch phase changes the file downloaded for a document,
\* in a run in which nothing of the environment fails.
DownloadsUntouched ==
  pc \notin {"call", "fetching"} /\ faults = 0 =>
    \A i \in DOMAIN tasks :
      tasks[i].result = "path" =>
        /\ PlainPath(i) \in DOMAIN fs'
        /\ fs'[PlainPath(i)] = fs[PlainPath(i)]

\* C21 (as claimed): from the end of the fetch phase to the return of
\* download_pdfs the file downloaded for every document keeps its content,
\* whatever is validated, repaired or saved for this or another document.
C21_PayloadsReadOnly == [][DownloadsUntouched]_vars

\* The indexes of the URLs whose _download_pdf returned a path, in list order.
FetchedInOrder ==
  SelectSeq([i \in 1 .. Len(urls) |-> i], LAMBDA i : tasks[i].result = "path")

\* C22: download_pdfs returns, in the order of the URL list, the path
\* target_folder/<last segment> of every URL whose fetch returned a path and
\* nothing else.  A fetch returns a path only for status 200 and a payload
\* with the %PDF signature, and then always unless the write of the file fails.
C22_ResultIsFetchedInOrder ==
  /\ pc = "returned" /\ urls # <<>> =>
       result = [j \in 1 .. Len(FetchedInOrder) |-> PlainPath(FetchedInOrder[j])]
  /\ \A i \in DOMAIN tasks :
       /\ tasks[i].result = "path" =>
            tasks[i].content = Bytes(Served(urls[i])) /\ Catalogue(Served(urls[i])).magic = "%PDF"
       /\ tasks[i].pc = "done" /\ tasks[i].content # EmptyFile /\ tasks[i].why # "io"
            /\ Catalogue(Served(urls[i])).magic = "%PDF" => tasks[i].result = "path"

\* C22 witness: two different paths have been returned.
C22_Witness ==
  pc = "returned" /\ Len(result) = 2 /\ result[1] # result[2]

\* C23: _repair_pdf runs only in a call whose downloaded file failed to open
\* or to give its first page; a call whose first validation succeeded goes on
\* with the downloaded file, has called no repair and has no temporary file;
\* and temporary files exist only for repaired documents.
C23_RepairOnlyAfterFailedValidation ==
  /\ pc = "hw" /\ hw.pc \in {"repair", "revalidate"} =>
       ~Catalogue(fs[downloaded_files[idx]].base).ok
  /\ pc = "hw" /\ hw.pc = "validate" =>
       hist[origin[idx]].repairs = 0 /\ hist[origin[idx]].tmp = {}
  /\ pc = "hw" /\ hw.pc \in {"start", "page", "word", "inst", "save", "close"} =>
       \/ /\ hw.pdf_path = downloaded_files[idx] /\ hw.repaired_path = None
          /\ Catalogue(hw.doc.bytes.base).ok
          /\ hist[origin[idx]].repairs = 0 /\ hist[origin[idx]].tmp = {}
       \/ /\ hw.pdf_path = hw.repaired_path /\ hw.pdf_path.dir = "tmp"
          /\ hist[origin[idx]].repairs = 1
  /\ \A d \in DOMAIN hist :
       /\ hist[d].repairs = 0 => hist[d].tmp = {}
       /\ hist[d].valid /\ hist[d].repairs = 0 /\ hist[d].end # "none" =>
            hist[d].why \notin {"RepairError", "Unrepairable"}

\* C23 witness: a document that validated at once is being closed, unrepaired,
\* in a batch in which another document was repaired.
C23_Witness ==
  /\ pc = "hw" /\ hw.pc = "close" /\ hw.repaired_path = None
  /\ hist[origin[idx]].repairs = 0 /\ ntemp > 0

\* An upper bound of the steps download_pdfs still has to take.  Per page:
\* the page step, per word the search and one step per region, and the step
\* that leaves the page.
WordCost == Catalogue("xref_fixed").hits + 1
PageCost == Len(highlight_words.v) * WordCost + 2
FrameMax == MaxPages * PageCost + 7
DocCost == FrameMax + 2

WordRank(w) == (Len(highlight_words.v) + 1 - w) * WordCost + 1

FrameRank ==
  LET left == (Catalogue(hw.doc.bytes.base).pages - hw.page_num) * PageCost + 3
  IN  CASE hw.pc = "validate"   -> FrameMax
        [] hw.pc = "repair"     -> FrameMax - 1
        [] hw.pc = "revalidate" -> FrameMax - 2
        [] hw.pc = "start"      -> FrameMax - 3
        [] hw.pc = "page"       -> left
        [] hw.pc = "word"       -> left - PageCost + WordRank(hw.w)
        [] hw.pc = "inst"       -> left - PageCost + WordRank(hw.w) - hw.k
        [] hw.pc = "save"       -> 2
        [] hw.pc = "close"      -> 1
        [] OTHER                -> 0

TaskRank(t) ==
  CASE t.pc = "get" -> 3 [] t.pc = "open" -> 2 [] t.pc = "write" -> 1 [] OTHER -> 0

RECURSIVE TasksRank(_)
TasksRank(n) == IF n = 0 THEN 0 ELSE TaskRank(tasks[n]) + TasksRank(n - 1)

Rank ==
  CASE pc = "call"     -> Len(urls) * (3 + DocCost) + 5
    [] pc = "fetching" -> TasksRank(Len(tasks)) + Len(urls) * DocCost + 4
    [] pc = "words"    -> Len(downloaded_files) * DocCost + 3
    [] pc = "loop"     -> (Len(downloaded_files) + 1 - idx) * DocCost + 2
    [] pc = "hw"       -> FrameRank + 1 + (Len(downloaded_files) - idx) * DocCost + 2
    [] pc = "return"   -> 1
    [] OTHER           -> 0

\* C24 (as claimed): when download_pdfs has returned, every fetched document
\* is Done or Failed.
C24_AllEndDoneOrFailed ==
  pc = "returned" =>
    \A i \in DOMAIN tasks : tasks[i].result = "path" => hist[i].end \in {"Done", "Failed"}

\* C24 (amended): download_pdfs returns: before the return a step can always
\* be taken and every step lowers Rank, a natural number.  With words, every
\* fetched document is then Done or Failed, and Done whenever a validation
\* succeeded and the save did not fail; without words no document ever
\* leaves Fetched.
C24_Terminates ==
  /\ [][Rank' < Rank]_vars
  /\ [](Rank \in Nat /\ (pc # "returned" => ENABLED Next))
  /\ [](pc = "returned" =>
          \A i \in DOMAIN tasks :
            tasks[i].result = "path" =>
              IF highlight_words.t # "none" /\ highlight_words.v # <<>>
              THEN /\ hist[i].end \in {"Done", "Failed"}
                   /\ hist[i].valid /\ hist[i].why # "PersistFailure" => hist[i].end = "Done"
                   /\ hist[i].end = "Done" => hist[i].valid
              ELSE hist[i].end = "none")

\* C24 witness: download_pdfs has returned after a batch with a document
\* that ended Done after a repair and a document that ended Failed.
C24_Witness ==
  /\ pc = "returned"
  /\ \E i, j \in DOMAIN hist :
       hist[i].end = "Done" /\ hist[i].repairs = 1 /\ hist[j].end = "Failed"

\* What the history shows of a document: nothing yet, or its end.
NotBegun(d) ==
  ~hist[d].valid /\ hist[d].repairs = 0 /\ ~hist[d].annot /\ hist[d].end = "none"
Ended(d) == hist[d].end \in {"Done", "Failed"}

\* The documents that are being validated, repaired or annotated.
InPostFetch ==
  {d \in DOMAIN hist : Stage(d) \in {"Validating", "Repairing", "Revalidating", "Annotating"}}

\* C25: at most one document is being validated, repaired or annotated at
\* any time, whatever the size of the batch: the files are taken one after
\* the other in list order, every earlier one has ended and no later one has
\* begun; and no fetch task runs while a document is in such a stage.
C25_OneDocumentAtATime ==
  /\ Cardinality(InPostFetch) <= 1
  /\ InPostFetch # {} => \A i \in DOMAIN tasks : tasks[i].pc = "done"
  /\ pc \in {"loop", "hw"} =>
       \A j \in DOMAIN origin :
         /\ j < idx => Ended(origin[j])
         /\ j > idx => NotBegun(origin[j])
  /\ pc \in {"return", "returned"} /\ urls # <<>> =>
       \A j \in DOMAIN origin : Ended(origin[j]) \/ NotBegun(origin[j])
  /\ \A d \in DOMAIN hist : (\A j \in DOMAIN origin : origin[j] # d) => NotBegun(d)

\* C25 witness: the second file is being highlighted and the first has ended.
C25_Witness ==
  pc = "hw" /\ idx = 2 /\ hw.pc = "inst" /\ Ended(origin[1]) /\ InPostFetch = {origin[2]}

\* -------------------------------------------------- claims on fetch_records
\* A call of fetch_records is under way.
Fetching == fr.pc \in {"top", "root", "recs", "total", "return"}

\* The iterations a call can still begin: a further one needs
\* start_record <= total, and no reported total exceeds MaxTotal.
Room == Max(0, MaxTotal + 1 - parldocs.start_record)

\* A variant of the loop of lines 127-149.
FetchRank ==
  CASE fr.pc = "top" -> 4 * Room + 5
    [] fr.pc = "root" -> 4 * Room + 4
    [] fr.pc = "recs" -> 4 * Room + 3
    [] fr.pc = "total" -> 4 * Room + 2
    [] fr.pc = "return" -> 1
    [] OTHER -> 0

\* A step within one call.
SameCall == fr'.call = fr.call

\* The step is a request; the step goes on to a further iteration; the step
\* meets a failed request, a parse error, a diagnostic or an empty page.
Requests == fr'.requests = fr.requests + 1

Continues == fr.pc = "total" /\ fr'.pc = "top"

Stops ==
  \/ fr.pc = "top" /\ fr'.failure # "none"
  \/ fr.pc = "root" /\ (fr.root.diagnostic \/ fr.root.recs = <<>>)

\* C26, as stated: once a call has returned, it has made no more requests
\* than the number of records the endpoint, answering as asked, reported.
C26_RequestsBoundedByTotal ==
  fr.pc = "returned" /\ fr.faithful /\ fr.call = 1 => fr.requests <= sru

\* C26: a call of fetch_records terminates.  Every step of a call lowers a
\* natural-valued variant and a call under way can always take a step; an
\* iteration that continues has received at least one record and moves
\* start_record forward by the number received; every request after the first
\* of a call is made with start_record, which is then at most the total last
\* reported; the first failed request, parse error, diagnostic or empty page
\* ends the loop with no further request; and a call makes at most as many
\* requests as the largest total reported, the first request apart.
C26_Terminates ==
  /\ [][SameCall => FetchRank' < FetchRank]_vars
  /\ [](FetchRank \in Nat /\ (Fetching => ENABLED FetchNext))
  /\ [][Continues => /\ Len(fr.recs) >= 1
                     /\ parldocs'.start_record = parldocs.start_record + Len(fr.recs)]_vars
  /\ [][SameCall /\ Requests /\ fr.requests >= 1
          => /\ parldocs.params.startRecord = parldocs.start_record
             /\ parldocs.start_record <= fr.total]_vars
  /\ [][Stops => fr'.pc = "return"]_vars
  /\ [](fr.pc \in {"return", "returned"} => ~ENABLED (FR_Fetch /\ UNCHANGED Downloader))
  /\ [](fr.requests <= Max(1, fr.reported))

\* C26 witness: a call has returned after as many requests as the total
\* reported allows.
C26_Witness == fr.pc = "returned" /\ fr.requests = MaxTotal /\ fr.reported = MaxTotal

\* The call is the first one on a new instance, it has ended, and every
\* request was answered with the page asked for.
FreshAndFaithful == fr.call = 1 /\ fr.faithful /\ fr.pc \in {"returned", "raised"}

\* The URLs of the records of the result set whose identifier, white space
\* apart, is not empty.
RECURSIVE UrlsOf(_)
UrlsOf(recs) ==
  IF recs = <<>> THEN <<>>
  ELSE LET id == IF Head(recs).recordData /\ Head(recs).identifier.present
                 THEN Head(recs).identifier.body ELSE ""
       IN  IF id = "" THEN UrlsOf(Tail(recs))
           ELSE <<"https://zoek.officielebekendmakingen.nl/" \o id \o ".pdf">> \o UrlsOf(Tail(recs))

\* C27: on a new instance whose requests are all answered with the page
\* asked for, fetch_records returns the records 1..total of the result set,
\* each once and in order, and one URL for each of them that has an
\* identifier, in the same order.
C27_PaginationComplete ==
  FreshAndFaithful =>
    /\ fr.pc = "returned"
    /\ Len(fr.records) = sru
    /\ \A k \in 1 .. sru : fr.records[k] = BuildRecord(Found[k])
    /\ fr.pdf_urls = UrlsOf(Found)

\* The loop was left because a request failed: no connection, a rejected
\* status, a body that is not XML, or an SRU diagnostic.
RequestFailed == fr.failure \in {"network", "status", "malformed", "diagnostic"}

\* C28: when a request fails, at whatever page, fetch_records does not
\* raise: it goes to its return statement with the records of the pages
\* answered before the failure, in order, and with their URLs, and that is
\* what it returns.
C28_FailureReturnsAccumulated ==
  RequestFailed =>
    /\ fr.pc \in {"return", "returned"}
    /\ Len(fr.records) = Len(fr.served)
    /\ \A k \in DOMAIN fr.served : fr.records[k] = BuildRecord(fr.served[k])
    /\ fr.pdf_urls = UrlsOf(fr.served)

\* C28 witness: the second request met a network error and the call has
\* returned the two records of the first page, one of them with a URL.
C28_Witness ==
  /\ fr.pc = "returned"
  /\ fr.failure = "network"
  /\ fr.requests = 2
  /\ Len(fr.records) = 2
  /\ Len(fr.pdf_urls) = 1

=============================================================================
